---- MODULE Spec2Model ----
(***************************************************************************)
(* Schedule resolver of tock/sked: config.ProcessOverrides,                *)
(* config.Validate and the Scheduler queries GetCurrentTask, GetNextTask,  *)
(* GetPreviousTask, GetTasksForDate with their helpers getCycleDayID,      *)
(* getTasksForDay, parseTaskTimes and parseTimeOnDate.                     *)
(*                                                                         *)
(* Strings are sequences of one-character strings, so that the parsers     *)
(* (time.Parse with the layouts "15:04" and "2006-01-02", parseDayName)    *)
(* are computed character by character.  A time.Time is a record           *)
(* [day, min, loc]: the wall-clock calendar day (days since 0001-01-01),   *)
(* the wall-clock minute of that day and the location; Unix(t) is the      *)
(* absolute instant in minutes that Before/After/Equal/Sub compare.        *)
(***************************************************************************)
EXTENDS Integers, Sequences, FiniteSets, TLC

\* the order sort.Slice leaves equal elements in when it sorts more than
\* maxInsertion of them: TRUE when reversed
VARIABLE reverseTies

(***************************************************************************)
(* Go arithmetic                                                           *)
(***************************************************************************)

\* int(x / y) on a float quotient, y > 0: truncation toward zero
TruncDiv(x, y) ==
    IF x >= 0 THEN x \div y ELSE -((-x) \div y)

\* Go's integer remainder x % y, y > 0: the sign follows the dividend
GoRem(x, y) ==
    x - y * TruncDiv(x, y)

(***************************************************************************)
(* Characters and strings                                                  *)
(***************************************************************************)

Digits ==
    <<"0", "1", "2", "3", "4", "5", "6", "7", "8", "9">>

isDigit(s, i) ==
    i <= Len(s) /\ \E k \in 1..10 : Digits[k] = s[i]

DigitVal(c) ==
    (CHOOSE k \in 1..10 : Digits[k] = c) - 1

\* s[i:]  (1-based i, the suffix that starts at position i)
Rest(s, i) ==
    SubSeq(s, i, Len(s))

\* getnum of package time: one or two leading digits; fixed demands two
getnum(s, fixed) ==
    IF ~isDigit(s, 1) THEN [ok |-> FALSE, n |-> 0, rest |-> s]
    ELSE IF ~isDigit(s, 2)
         THEN IF fixed THEN [ok |-> FALSE, n |-> 0, rest |-> s]
              ELSE [ok |-> TRUE, n |-> DigitVal(s[1]), rest |-> Rest(s, 2)]
         ELSE [ok |-> TRUE, n |-> DigitVal(s[1]) * 10 + DigitVal(s[2]),
               rest |-> Rest(s, 3)]

HasPrefix(s, p) ==
    Len(s) >= Len(p) /\ SubSeq(s, 1, Len(p)) = p

LowerOf(c) ==
    CASE c = "M" -> "m" [] c = "T" -> "t" [] c = "W" -> "w" [] c = "F" -> "f"
      [] c = "S" -> "s" [] c = "O" -> "o" [] c = "N" -> "n" [] c = "U" -> "u"
      [] c = "E" -> "e" [] c = "D" -> "d" [] c = "H" -> "h" [] c = "R" -> "r"
      [] c = "I" -> "i" [] c = "A" -> "a"
      [] OTHER -> c

ToLower(s) ==
    [i \in 1..Len(s) |-> LowerOf(s[i])]

RECURSIVE TrimLeft(_)
TrimLeft(s) ==
    IF s # <<>> /\ Head(s) = " " THEN TrimLeft(Tail(s)) ELSE s

RECURSIVE TrimRight(_)
TrimRight(s) ==
    IF s # <<>> /\ s[Len(s)] = " " THEN TrimRight(SubSeq(s, 1, Len(s) - 1)) ELSE s

TrimSpace(s) ==
    TrimRight(TrimLeft(s))

(***************************************************************************)
(* Calendar (package time)                                                 *)
(***************************************************************************)

isLeap(y) ==
    (y % 4 = 0 /\ y % 100 # 0) \/ y % 400 = 0

daysBefore ==
    <<0, 31, 59, 90, 120, 151, 181, 212, 243, 273, 304, 334, 365>>

daysIn(m, y) ==
    IF m = 2 /\ isLeap(y) THEN 29 ELSE daysBefore[m + 1] - daysBefore[m]

\* days from 0001-01-01 to y-m-d
AbsDay(y, m, d) ==
    365 * (y - 1) + (y - 1) \div 4 - (y - 1) \div 100 + (y - 1) \div 400
      + daysBefore[m] + (IF m > 2 /\ isLeap(y) THEN 1 ELSE 0) + (d - 1)

\* Weekday with Monday as day 0
WeekdayMondayFirst(day) ==
    day % 7

\* time.Weekday: Sunday = 0 ... Saturday = 6 (0001-01-01 is a Monday)
Weekday(day) ==
    (day + 1) % 7


(***************************************************************************)
(* time.Time, locations and instants                                       *)
(***************************************************************************)

\* minutes of one civil day (the code divides Hours() by 24)
MinutesPerDay ==
    1440

\* The two locations a query instant carries: UTC, and a zone with daylight
\* saving time whose rules are those of America/New_York in 2024: clocks go
\* from 02:00 to 03:00 on 2024-03-10 and from 02:00 back to 01:00 on 2024-11-03.
Locations ==
    {"UTC", "America/New_York"}

DstStartDay ==
    AbsDay(2024, 3, 10)

DstEndDay ==
    AbsDay(2024, 11, 3)

\* is wall-clock (day, min) of the zone in daylight saving time
InDst(day, min) ==
    /\ day > DstStartDay \/ (day = DstStartDay /\ min >= 180)
    /\ day < DstEndDay \/ (day = DstEndDay /\ min < 60)

\* minutes east of UTC in force at wall-clock (day, min) of loc
ZoneOffset(loc, day, min) ==
    IF loc = "UTC" THEN 0
    ELSE IF InDst(day, min) THEN -240 ELSE -300

\* time.Date(y, m, d, hh, mm, 0, 0, loc) with (y, m, d) given as a day number
Date(day, min, loc) ==
    [day |-> day, min |-> min, loc |-> loc]

\* the absolute instant of t, in minutes
Unix(t) ==
    t.day * MinutesPerDay + t.min - ZoneOffset(t.loc, t.day, t.min)

Before(t, u) ==
    Unix(t) < Unix(u)

After(t, u) ==
    Unix(t) > Unix(u)

Equal(t, u) ==
    Unix(t) = Unix(u)

\* t.AddDate(0, 0, n): the same wall clock n calendar days later
AddDate(t, n) ==
    Date(t.day + n, t.min, t.loc)

(***************************************************************************)
(* time.Parse                                                              *)
(***************************************************************************)

\* time.Parse("15:04", s): hour of one or two digits below 24, ":", minute
\* of exactly two digits below 60, nothing after
ParseClock(s) ==
    LET h == getnum(s, FALSE)
        m == getnum(Rest(h.rest, 2), TRUE)
    IN IF /\ h.ok /\ h.n < 24
          /\ h.rest # <<>> /\ Head(h.rest) = ":"
          /\ m.ok /\ m.n < 60
          /\ m.rest = <<>>
       THEN [ok |-> TRUE, hour |-> h.n, minute |-> m.n]
       ELSE [ok |-> FALSE, hour |-> 0, minute |-> 0]

\* time.Parse("2006-01-02", s): four digits, "-", two digits 01..12, "-",
\* two digits naming a day of that month, nothing after; the result is UTC
ParseDate(s) ==
    LET yOk == Len(s) >= 4 /\ \A i \in 1..4 : isDigit(s, i)
        y   == DigitVal(s[1]) * 1000 + DigitVal(s[2]) * 100
                 + DigitVal(s[3]) * 10 + DigitVal(s[4])
        r1  == Rest(s, 5)
        m   == getnum(Rest(r1, 2), TRUE)
        d   == getnum(Rest(m.rest, 2), TRUE)
    IN IF /\ yOk
          /\ r1 # <<>> /\ Head(r1) = "-"
          /\ m.ok /\ m.n >= 1 /\ m.n <= 12
          /\ m.rest # <<>> /\ Head(m.rest) = "-"
          /\ d.ok /\ d.rest = <<>>
          /\ d.n >= 1 /\ d.n <= daysIn(m.n, y)
       THEN [ok |-> TRUE, t |-> Date(AbsDay(y, m.n, d.n), 0, "UTC")]
       ELSE [ok |-> FALSE, t |-> Date(0, 0, "UTC")]


(***************************************************************************)
(* package config                                                          *)
(***************************************************************************)

\* the zero time.Time
ZeroTime ==
    Date(0, 0, "UTC")

\* the string "" as a character sequence
EmptyStr ==
    <<>>

\* Decoding one [[override]] table into an Override struct: the struct has
\* the keys date, is_off and use_day_id; any other key of the table (such as
\* end_date) has no field to land in.  Date and UseDayID start at their zero
\* values.
DecodeOverride(tbl) ==
    [DateStr     |-> tbl.date,
     IsOff       |-> tbl.is_off,
     UseDayIDRaw |-> tbl.use_day_id,
     Date        |-> ZeroTime,
     UseDayID    |-> 0]

\* parseDayName: lower-cased, trimmed prefix match; -1 with an error otherwise
parseDayName(name) ==
    LET n == ToLower(TrimSpace(name))
    IN IF HasPrefix(n, <<"s", "u", "n">>) THEN [err |-> FALSE, id |-> 0]
       ELSE IF HasPrefix(n, <<"m", "o", "n">>) THEN [err |-> FALSE, id |-> 1]
       ELSE IF HasPrefix(n, <<"t", "u", "e">>) THEN [err |-> FALSE, id |-> 2]
       ELSE IF HasPrefix(n, <<"w", "e", "d">>) THEN [err |-> FALSE, id |-> 3]
       ELSE IF HasPrefix(n, <<"t", "h", "u">>) THEN [err |-> FALSE, id |-> 4]
       ELSE IF HasPrefix(n, <<"f", "r", "i">>) THEN [err |-> FALSE, id |-> 5]
       ELSE IF HasPrefix(n, <<"s", "a", "t">>) THEN [err |-> FALSE, id |-> 6]
       ELSE [err |-> TRUE, id |-> -1]

\* The type switch on UseDayIDRaw.  A raw value is [type, int, tenths, str]:
\* an int64 carries int, a float64 carries its value in tenths, a string
\* carries str; int(v) of a float truncates toward zero.
UseDayIDOf(raw) ==
    CASE raw.type = "int64"   -> [err |-> FALSE, id |-> raw.int]
      [] raw.type = "float64" -> [err |-> FALSE, id |-> TruncDiv(raw.tenths, 10)]
      [] raw.type = "string"  -> parseDayName(raw.str)
      [] OTHER                -> [err |-> TRUE, id |-> 0]

\* one iteration of the loop of ProcessOverrides on override o
ProcessOverride(o) ==
    LET t == ParseDate(o.DateStr)
        u == UseDayIDOf(o.UseDayIDRaw)
    IN IF o.DateStr = EmptyStr THEN [err |-> TRUE, o |-> o]
       ELSE IF ~t.ok THEN [err |-> TRUE, o |-> o]
       ELSE IF o.IsOff THEN [err |-> FALSE, o |-> [o EXCEPT !.Date = t.t]]
       ELSE IF o.UseDayIDRaw.type = "nil" THEN [err |-> TRUE, o |-> o]
       ELSE IF u.err THEN [err |-> TRUE, o |-> o]
       ELSE [err |-> FALSE, o |-> [o EXCEPT !.Date = t.t, !.UseDayID = u.id]]

\* Config.ProcessOverrides: every override in list order, stopping at the
\* first error
ProcessOverrides(c) ==
    LET r == [i \in 1..Len(c.Overrides) |-> ProcessOverride(c.Overrides[i])]
    IN IF \E i \in 1..Len(c.Overrides) : r[i].err
       THEN [err |-> TRUE, cfg |-> c]
       ELSE [err |-> FALSE,
             cfg |-> [c EXCEPT !.Overrides =
                        [i \in 1..Len(c.Overrides) |-> r[i].o]]]

\* LoadTOML without csv_path: decode the document (CycleDays defaults to 7
\* when the key cycle_days is absent), then ProcessOverrides
LoadTOML(document) ==
    ProcessOverrides(
        [CycleDays  |-> IF document.has_cycle_days THEN document.cycle_days ELSE 7,
         AnchorDate |-> document.anchor_date,
         Days       |-> document.day,
         Overrides  |-> [i \in 1..Len(document.override) |->
                            DecodeOverride(document.override[i])]])

\* Config.Validate
\* Validate without the test for the anchor date of a cycle other than the week
ValidateWithoutAnchorTest(c) ==
    /\ c.CycleDays > 0
    /\ c.AnchorDate # EmptyStr => ParseDate(c.AnchorDate).ok

Validate(c) ==
    /\ c.CycleDays > 0
    /\ ~(c.CycleDays # 7 /\ c.AnchorDate = EmptyStr)
    /\ c.AnchorDate # EmptyStr => ParseDate(c.AnchorDate).ok


(***************************************************************************)
(* package scheduler                                                       *)
(***************************************************************************)

\* the day id getCycleDayID returns for an OFF day
OffDay ==
    -1

\* the name of a placeholder task
Placeholder ==
    "/"

\* a *TaskEvent result: err, or nil (isNil), or the event ev
NilEvent ==
    [Name |-> "", StartTime |-> ZeroTime, EndTime |-> ZeroTime]

ErrResult ==
    [err |-> TRUE, isNil |-> TRUE, ev |-> NilEvent]

NilResult ==
    [err |-> FALSE, isNil |-> TRUE, ev |-> NilEvent]

EventResult(e) ==
    [err |-> FALSE, isNil |-> FALSE, ev |-> e]

\* MatchingOverride with the last matching override taken
LastMatchingOverride(c, date) ==
    IF \E i \in 1..Len(c.Overrides) : c.Overrides[i].Date.day = date.day
    THEN CHOOSE i \in 1..Len(c.Overrides) :
            /\ c.Overrides[i].Date.day = date.day
            /\ \A j \in (i + 1)..Len(c.Overrides) :
                  c.Overrides[j].Date.day # date.day
    ELSE 0

\* the first override of the list whose Date has the calendar day of date;
\* 0 when none has
MatchingOverride(c, date) ==
    IF \E i \in 1..Len(c.Overrides) : c.Overrides[i].Date.day = date.day
    THEN CHOOSE i \in 1..Len(c.Overrides) :
            /\ c.Overrides[i].Date.day = date.day
            /\ \A j \in 1..(i - 1) : c.Overrides[j].Date.day # date.day
    ELSE 0

\* OverrideDayID without the test of IsOff
OverrideDayIDIgnoringOff(o) ==
    o.UseDayID

\* the value an override decides
OverrideDayID(o) ==
    IF o.IsOff THEN OffDay ELSE o.UseDayID

\* the anchored calculation: both dates at midnight of date's location,
\* int(d1.Sub(anchorInLoc).Hours() / 24), then the remainder made non-negative
AnchoredDayID(c, anchor, date) ==
    LET d1          == Date(date.day, 0, date.loc)
        anchorInLoc == Date(anchor.day, 0, date.loc)
        diff        == TruncDiv(Unix(d1) - Unix(anchorInLoc), MinutesPerDay)
        mod         == GoRem(diff, c.CycleDays)
    IN IF mod < 0 THEN mod + c.CycleDays ELSE mod

\* getCycleDayID taking the weekday whenever there is no anchor date
getCycleDayIDWeekdayWithoutAnchor(c, date) ==
    LET k      == MatchingOverride(c, date)
        anchor == ParseDate(c.AnchorDate)
    IN IF k # 0 THEN [err |-> FALSE, id |-> OverrideDayID(c.Overrides[k])]
       ELSE IF c.AnchorDate = EmptyStr
            THEN [err |-> FALSE, id |-> Weekday(date.day)]
       ELSE IF ~anchor.ok THEN [err |-> TRUE, id |-> 0]
       ELSE [err |-> FALSE, id |-> AnchoredDayID(c, anchor.t, date)]

\* getCycleDayID: overrides first, then the weekday of a 7-day cycle without
\* anchor, then the anchored cycle
getCycleDayID(c, date) ==
    LET k      == MatchingOverride(c, date)
        anchor == ParseDate(c.AnchorDate)
    IN IF k # 0 THEN [err |-> FALSE, id |-> OverrideDayID(c.Overrides[k])]
       ELSE IF c.CycleDays = 7 /\ c.AnchorDate = EmptyStr
            THEN [err |-> FALSE, id |-> Weekday(date.day)]
       ELSE IF c.AnchorDate = EmptyStr THEN [err |-> TRUE, id |-> 0]
       ELSE IF ~anchor.ok THEN [err |-> TRUE, id |-> 0]
       ELSE [err |-> FALSE, id |-> AnchoredDayID(c, anchor.t, date)]

\* getTasksForDay: nothing on an OFF day, else the tasks of the first Day
\* entry with that id, nothing when there is none
getTasksForDay(c, dayID) ==
    IF dayID = OffDay THEN <<>>
    ELSE IF \E i \in 1..Len(c.Days) : c.Days[i].ID = dayID
         THEN c.Days[CHOOSE i \in 1..Len(c.Days) :
                        /\ c.Days[i].ID = dayID
                        /\ \A j \in 1..(i - 1) : c.Days[j].ID # dayID].Tasks
         ELSE <<>>

\* parseTimeOnDate: the clock time of timeStr on the calendar day of date,
\* in date's location
parseTimeOnDate(date, timeStr) ==
    LET t == ParseClock(timeStr)
    IN IF ~t.ok THEN [err |-> TRUE, t |-> ZeroTime]
       ELSE [err |-> FALSE,
             t |-> Date(date.day, t.hour * 60 + t.minute, date.loc)]

\* parseTaskTimes: start, then end
parseTaskTimes(date, t) ==
    LET start == parseTimeOnDate(date, t.Start)
        end   == parseTimeOnDate(date, t.End)
    IN IF start.err THEN [err |-> TRUE, start |-> ZeroTime, end |-> ZeroTime]
       ELSE IF end.err THEN [err |-> TRUE, start |-> ZeroTime, end |-> ZeroTime]
       ELSE [err |-> FALSE, start |-> start.t, end |-> end.t]

\* InProgress with the end included
InProgressEndInclusive(now, start, end) ==
    (Equal(now, start) \/ After(now, start)) /\ ~After(now, end)

\* the condition under which GetCurrentTask takes a task: start inclusive,
\* end exclusive
InProgress(now, start, end) ==
    (Equal(now, start) \/ After(now, start)) /\ Before(now, end)

\* the loop of GetCurrentTask from task i on
RECURSIVE CurrentFrom(_, _, _)
CurrentFrom(tasks, now, i) ==
    IF i > Len(tasks) THEN NilResult
    ELSE LET p == parseTaskTimes(now, tasks[i])
         IN IF p.err THEN ErrResult
            ELSE IF InProgress(now, p.start, p.end)
                 THEN IF tasks[i].Name = Placeholder THEN NilResult
                      ELSE EventResult([Name      |-> tasks[i].Name,
                                        StartTime |-> p.start,
                                        EndTime   |-> p.end])
                 ELSE CurrentFrom(tasks, now, i + 1)

GetCurrentTask(c, now) ==
    LET d == getCycleDayID(c, now)
    IN IF d.err THEN ErrResult
       ELSE CurrentFrom(getTasksForDay(c, d.id), now, 1)

\* the events of a day: every task of the slot bound to date, in declaration
\* order; err when a task's times do not parse
DayEvents(tasks, date) ==
    LET p == [i \in 1..Len(tasks) |-> parseTaskTimes(date, tasks[i])]
    IN IF \E i \in 1..Len(tasks) : p[i].err
       THEN [err |-> TRUE, events |-> <<>>]
       ELSE [err |-> FALSE,
             events |-> [i \in 1..Len(tasks) |->
                           [Name      |-> tasks[i].Name,
                            StartTime |-> p[i].start,
                            EndTime   |-> p[i].end]]]

Front(s) ==
    SubSeq(s, 1, Len(s) - 1)

Reverse(s) ==
    [i \in 1..Len(s) |-> s[Len(s) + 1 - i]]

\* the length up to which sort.Slice is an insertion sort
maxInsertion ==
    12

\* sort.Slice on fewer than 12 elements is an insertion sort: element e moves
\* left past every element it is less than
RECURSIVE InsertByStart(_, _)
InsertByStart(s, e) ==
    IF s = <<>> \/ ~Before(e.StartTime, s[Len(s)].StartTime)
    THEN Append(s, e)
    ELSE Append(InsertByStart(Front(s), e), s[Len(s)])

RECURSIVE insertionSortByStart(_)
insertionSortByStart(s) ==
    IF s = <<>> THEN <<>>
    ELSE InsertByStart(insertionSortByStart(Front(s)), s[Len(s)])

\* sort.Slice leaves its input as it is
Unsorted(s) ==
    s

\* sort.Slice(events, StartTime.Before): the insertion sort up to
\* maxInsertion elements; beyond, sort.Slice sorts but does not say in which
\* order it leaves equal elements: in the order of the slice, or reversed
SortByStart(s) ==
    IF Len(s) > maxInsertion /\ reverseTies
    THEN insertionSortByStart(Reverse(s))
    ELSE insertionSortByStart(s)

RECURSIVE InsertByEndDesc(_, _)
InsertByEndDesc(s, e) ==
    IF s = <<>> \/ ~After(e.EndTime, s[Len(s)].EndTime)
    THEN Append(s, e)
    ELSE Append(InsertByEndDesc(Front(s), e), s[Len(s)])

RECURSIVE insertionSortByEndDesc(_)
insertionSortByEndDesc(s) ==
    IF s = <<>> THEN <<>>
    ELSE InsertByEndDesc(insertionSortByEndDesc(Front(s)), s[Len(s)])

\* sort.Slice(dayEvents, EndTime.After)
SortByEndDesc(s) ==
    IF Len(s) > maxInsertion /\ reverseTies
    THEN insertionSortByEndDesc(Reverse(s))
    ELSE insertionSortByEndDesc(s)

\* templates in the order of their start strings (insertion sort)
ClockKey(str) ==
    LET p == ParseClock(str)
    IN IF p.ok THEN p.hour * 60 + p.minute ELSE 0

RECURSIVE InsertTemplate(_, _)
InsertTemplate(s, t) ==
    IF s = <<>> \/ ClockKey(t.Start) >= ClockKey(s[Len(s)].Start)
    THEN Append(s, t)
    ELSE Append(InsertTemplate(Front(s), t), s[Len(s)])

RECURSIVE SortTemplates(_)
SortTemplates(s) ==
    IF s = <<>> THEN <<>>
    ELSE InsertTemplate(SortTemplates(Front(s)), s[Len(s)])

\* maxDays with a third cycle
MaxDaysThreeCycles(c) ==
    IF c.CycleDays * 3 < 7 THEN 7 ELSE c.CycleDays * 3

\* a search that looks at the day of now only
MaxDaysOnlyToday(c) ==
    1

\* maxDays of GetNextTask and GetPreviousTask
MaxDays(c) ==
    IF c.CycleDays * 2 < 7 THEN 7 ELSE c.CycleDays * 2

\* StartsAfter with the start instant itself admitted
StartsAtOrAfter(e, now) ==
    ~Before(e.StartTime, now)

\* the event GetNextTask takes: it starts after now
StartsAfter(e, now) ==
    After(e.StartTime, now)

\* the first event of the sorted day that starts after now and is no
\* placeholder; 0 when there is none
FirstUpcoming(events, now) ==
    IF \E i \in 1..Len(events) :
           StartsAfter(events[i], now) /\ events[i].Name # Placeholder
    THEN CHOOSE i \in 1..Len(events) :
           /\ StartsAfter(events[i], now) /\ events[i].Name # Placeholder
           /\ \A j \in 1..(i - 1) :
                 ~(StartsAfter(events[j], now) /\ events[j].Name # Placeholder)
    ELSE 0

\* what a loop over the days returns: the result and the number of days it
\* went through
Walked(r, n) ==
    [res |-> r, days |-> n]

\* the loop of GetNextTask from day offset i on
RECURSIVE NextFrom(_, _, _)
NextFrom(c, now, i) ==
    IF i >= MaxDays(c) THEN Walked(NilResult, i)
    ELSE LET checkDate == AddDate(now, i)
             d         == getCycleDayID(c, checkDate)
             de        == DayEvents(getTasksForDay(c, d.id), checkDate)
             sorted    == SortByStart(de.events)
             k         == FirstUpcoming(sorted, now)
         IN IF d.err THEN Walked(ErrResult, i + 1)
            ELSE IF de.err THEN Walked(ErrResult, i + 1)
            ELSE IF k # 0 THEN Walked(EventResult(sorted[k]), i + 1)
            ELSE NextFrom(c, now, i + 1)

GetNextTask(c, now) ==
    NextFrom(c, now, 0).res

\* EndedBy with the end instant itself refused
EndedBefore(e, now) ==
    Before(e.EndTime, now)

\* the event GetPreviousTask takes: it has ended by now
EndedBy(e, now) ==
    ~After(e.EndTime, now)

FirstEnded(events, now) ==
    IF \E i \in 1..Len(events) :
           EndedBy(events[i], now) /\ events[i].Name # Placeholder
    THEN CHOOSE i \in 1..Len(events) :
           /\ EndedBy(events[i], now) /\ events[i].Name # Placeholder
           /\ \A j \in 1..(i - 1) :
                 ~(EndedBy(events[j], now) /\ events[j].Name # Placeholder)
    ELSE 0

\* the loop of GetPreviousTask from day offset i on
RECURSIVE PreviousFrom(_, _, _)
PreviousFrom(c, now, i) ==
    IF i >= MaxDays(c) THEN Walked(NilResult, i)
    ELSE LET checkDate == AddDate(now, -i)
             d         == getCycleDayID(c, checkDate)
             de        == DayEvents(getTasksForDay(c, d.id), checkDate)
             sorted    == SortByEndDesc(de.events)
             k         == FirstEnded(sorted, now)
         IN IF d.err THEN Walked(ErrResult, i + 1)
            ELSE IF de.err THEN Walked(ErrResult, i + 1)
            ELSE IF k # 0 THEN Walked(EventResult(sorted[k]), i + 1)
            ELSE PreviousFrom(c, now, i + 1)

GetPreviousTask(c, now) ==
    PreviousFrom(c, now, 0).res

\* ConfigAfterQuery with the task slice that getTasksForDay returns, which is
\* the Config's own, put in order of its start strings
ConfigTasksSorted(c) ==
    [c EXCEPT !.Days =
       [i \in 1..Len(c.Days) |->
          [c.Days[i] EXCEPT !.Tasks = SortTemplates(c.Days[i].Tasks)]]]

\* the Config s.cfg points to after a query: the queries append their
\* TaskEvents to a slice of their own and sort that one; s.cfg is only read
ConfigAfterQuery(c) ==
    c

\* GetTasksForDate: the events of the date sorted by start time
GetTasksForDate(c, date) ==
    LET d  == getCycleDayID(c, date)
        de == DayEvents(getTasksForDay(c, d.id), date)
    IN IF d.err THEN [err |-> TRUE, events |-> <<>>]
       ELSE IF de.err THEN [err |-> TRUE, events |-> <<>>]
       ELSE [err |-> FALSE, events |-> SortByStart(de.events)]


(***************************************************************************)
(* runWatch: the clock of the loop counts units of 50 ms from the start of *)
(* Monday 2024-03-11 UTC; the times of the schedule are whole minutes, so  *)
(* the queries see the minute the clock is in                              *)
(***************************************************************************)

\* units of 50 ms in a minute
TicksPerMinute ==
    1200

\* 50 * time.Millisecond, added to every sleep
Buffer ==
    1

\* 5 * time.Second, the pause after a query that failed
RetryPause ==
    100

\* 1 * time.Minute, the wait when there is no target
PollWait ==
    1200

WatchEpochDay ==
    AbsDay(2024, 3, 11)

\* the time.Time of clock value k
InstantAt(k) ==
    Date(WatchEpochDay + ((k \div TicksPerMinute) \div MinutesPerDay),
         (k \div TicksPerMinute) % MinutesPerDay, "UTC")

\* the clock value of the time.Time t
TicksOf(t) ==
    (Unix(t) - WatchEpochDay * MinutesPerDay) * TicksPerMinute

\* fmt.Sprintf("%s|%s", Name, StartTime.Format(time.RFC3339))
Sig(e) ==
    [name |-> e.Name, start |-> e.StartTime]

\* var lastNotifiedSig string
NoSig ==
    [name |-> "", start |-> ZeroTime]

\* a query of the iteration returned an error: the iteration stops there
IterationFailsUnlessPrevious(cur, nxt, prv) ==
    cur.err \/ nxt.err

IterationFails(cur, nxt, prv) ==
    cur.err \/ nxt.err \/ prv.err

\* realNext.StartTime.Add(-notifyAhead)
TriggerTime(w, nxt) ==
    TicksOf(nxt.ev.StartTime) - w.notifyAhead

\* every signature differs from the last one
AlwaysDiffers(sig, last) ==
    TRUE

\* sig != lastNotifiedSig
SigDiffers(sig, last) ==
    sig # last

\* the notification logic sends a notification for realNext
Notifies(w, nxt) ==
    /\ w.notifyEnabled /\ ~nxt.isNil
    /\ SigDiffers(Sig(nxt.ev), w.lastNotifiedSig)
    /\ ~(w.now < TriggerTime(w, nxt))

\* the targetTimes of the sleep calculation
TargetTimes(w, cur, nxt) ==
    (IF cur.isNil THEN <<>>
     ELSE <<TicksOf(cur.ev.EndTime) - w.lookahead>>)
    \o (IF nxt.isNil THEN <<>>
        ELSE <<TicksOf(nxt.ev.StartTime) - w.lookahead>>)
    \o (IF ~nxt.isNil /\ w.notifyEnabled /\ TriggerTime(w, nxt) > w.now
        THEN <<TriggerTime(w, nxt)>>
        ELSE <<>>)

\* the latest of the targets after now
LatestTarget(targetTimes, now) ==
    LET future == { x \in { targetTimes[i] : i \in 1..Len(targetTimes) } :
                      x > now }
    IN IF future = {} THEN [isZero |-> TRUE, t |-> 0]
       ELSE [isZero |-> FALSE,
             t |-> CHOOSE x \in future : \A y \in future : y <= x]

\* the loop over targetTimes: the earliest of those after now, or the zero
\* time
RECURSIVE EarliestFrom(_, _, _, _)
EarliestFrom(targetTimes, now, i, earliestTarget) ==
    IF i > Len(targetTimes) THEN earliestTarget
    ELSE EarliestFrom(targetTimes, now, i + 1,
            IF /\ targetTimes[i] > now
               /\ earliestTarget.isZero \/ targetTimes[i] < earliestTarget.t
            THEN [isZero |-> FALSE, t |-> targetTimes[i]]
            ELSE earliestTarget)

EarliestTarget(targetTimes, now) ==
    EarliestFrom(targetTimes, now, 1, [isZero |-> TRUE, t |-> 0])

\* waitDuration
WaitDuration(earliestTarget, now) ==
    LET d == IF earliestTarget.isZero THEN PollWait
             ELSE earliestTarget.t - now
    IN IF d < 0 THEN 0 ELSE d

\* the argument of time.Sleep at the end of the iteration
SleepOf(waitDuration) ==
    IF waitDuration > 0 THEN waitDuration + Buffer ELSE Buffer

\* what output.Print receives
Output(w, cur, nxt, prv) ==
    IF w.jsonFmt
    THEN [previous |-> prv, current |-> cur, next |-> nxt]
    ELSE [previous |-> NilResult, current |-> cur, next |-> NilResult]

\* the loop after an iteration a query of which failed
FailedIteration(w) ==
    [w EXCEPT !.pc = "sleep", !.iterations = @ + 1, !.failures = @ + 1,
              !.failed = TRUE, !.sleep = RetryPause]

\* the loop after an iteration whose queries returned cur, nxt and prv
CompletedIteration(w, cur, nxt, prv) ==
    LET wait == WaitDuration(EarliestTarget(TargetTimes(w, cur, nxt), w.now),
                             w.now)
    IN [w EXCEPT
          !.pc = "sleep", !.iterations = @ + 1, !.failed = FALSE,
          !.sent = IF Notifies(w, nxt)
                   THEN Append(@, [sig |-> Sig(nxt.ev), at |-> w.now])
                   ELSE @,
          !.lastNotifiedSig = IF Notifies(w, nxt) THEN Sig(nxt.ev) ELSE @,
          !.printed = @ + 1,
          !.out = Output(w, cur, nxt, prv),
          !.realCurrent = cur, !.realNext = nxt,
          !.waitDuration = wait,
          !.sleep = SleepOf(wait)]


(***************************************************************************)
(* Presentation of the tasks of a day: the table and the JSON output       *)
(***************************************************************************)

isSameDay(t1, t2) ==
    t1.day = t2.day

\* refreshTable: the row of task is highlighted
isActive(task, now, isToday) ==
    isToday /\ After(now, task.StartTime) /\ Before(now, task.EndTime)

\* the rows of the table of currentDate that refreshTable highlights at now
ActiveRows(tasks, now, currentDate) ==
    { i \in 1..Len(tasks) :
        isActive(tasks[i], now, isSameDay(now, currentDate)) }

\* printJSON: the is_current flag of each entry of dayTasks
IsCurrentFlags(dayTasks, current) ==
    [i \in 1..Len(dayTasks) |->
        /\ ~current.isNil
        /\ dayTasks[i].Name = current.ev.Name
        /\ Equal(dayTasks[i].StartTime, current.ev.StartTime)
        /\ Equal(dayTasks[i].EndTime, current.ev.EndTime)]


(***************************************************************************)
(* Inputs                                                                  *)
(***************************************************************************)

\* longest [[override]] list of a document
MaxOverrides ==
    2

\* number of consecutive calendar days queries are made on
NumQueryDays ==
    3

\* length of the custom (non-weekly) cycle
CustomCycleDays ==
    3

Chars(y4, m2, d2) ==
    y4 \o <<"-">> \o m2 \o <<"-">> \o d2

Y2024 ==
    <<"2", "0", "2", "4">>

\* "2024-03-10", a Sunday, the day daylight saving time starts
SundayStr ==
    Chars(Y2024, <<"0", "3">>, <<"1", "0">>)

\* "2024-03-11", a Monday
MondayStr ==
    Chars(Y2024, <<"0", "3">>, <<"1", "1">>)

\* the anchor date of the documents that have one
AnchorStr ==
    MondayStr

\* "2024-3-9": not of the layout 2006-01-02
BadDateStr ==
    Chars(Y2024, <<"3">>, <<"9">>)

\* "2024-03-12", a Tuesday
TuesdayStr ==
    Chars(Y2024, <<"0", "3">>, <<"1", "2">>)

Clock(h1, h2, m1, m2) ==
    <<h1, h2, ":", m1, m2>>

T0900 ==
    Clock("0", "9", "0", "0")

T0930 ==
    Clock("0", "9", "3", "0")

T1000 ==
    Clock("1", "0", "0", "0")

T1030 ==
    Clock("1", "0", "3", "0")

\* "9:30": one hour digit, which the layout 15:04 accepts
T930 ==
    <<"9", ":", "3", "0">>

\* "9am": not a clock time
TBad ==
    <<"9", "a", "m">>

Task(name, start, end) ==
    [Name |-> name, Start |-> start, End |-> end]

Math ==
    Task("Math", T0900, T1000)

\* overlaps Math
Science ==
    Task("Science", T0930, T1030)

\* a placeholder over the time of Math
Slash ==
    Task("/", T0900, T1000)

\* ends before it starts
Nap ==
    Task("Nap", T1000, T930)

\* its start does not parse
Broken ==
    Task("Broken", TBad, T1000)

Day(id, tasks) ==
    [ID |-> id, Tasks |-> tasks]

\* the [[day]] lists of the documents
DayLists ==
    { <<Day(0, <<Math, Science>>), Day(1, <<Science, Math>>),
        Day(2, <<Slash, Science>>), Day(1, <<Nap>>)>>,
      <<Day(1, <<Math, Broken>>), Day(2, <<Nap>>)>>,
      <<>> }

NoRaw ==
    [type |-> "nil", int |-> 0, tenths |-> 0, str |-> EmptyStr]

IntRaw(n) ==
    [type |-> "int64", int |-> n, tenths |-> 0, str |-> EmptyStr]

StrRaw(s) ==
    [type |-> "string", int |-> 0, tenths |-> 0, str |-> s]

BoolRaw ==
    [type |-> "bool", int |-> 0, tenths |-> 0, str |-> EmptyStr]

OverrideTable(date, endDate, isOff, raw) ==
    [date |-> date, end_date |-> endDate, is_off |-> isOff, use_day_id |-> raw]

\* the [[override]] tables documents are made of
OverrideTables ==
    { OverrideTable(MondayStr, EmptyStr, TRUE, NoRaw),
      OverrideTable(MondayStr, EmptyStr, FALSE, IntRaw(0)),
      OverrideTable(SundayStr, EmptyStr, FALSE, StrRaw(<<" ", "S", "a", "t">>)),
      OverrideTable(SundayStr, TuesdayStr, TRUE, NoRaw),
      OverrideTable(MondayStr, EmptyStr, FALSE, NoRaw),
      OverrideTable(BadDateStr, EmptyStr, TRUE, NoRaw),
      OverrideTable(SundayStr, EmptyStr, FALSE, BoolRaw) }

\* lists of distinct tables, at most MaxOverrides long
RECURSIVE OverrideLists(_)
OverrideLists(n) ==
    IF n = 0 THEN {<<>>}
    ELSE LET shorter == OverrideLists(n - 1)
         IN shorter \cup
            { Append(l, t) : l \in {x \in shorter : Len(x) = n - 1},
                             t \in OverrideTables }

\* cycle_days and anchor_date of the documents
CycleSettings ==
    { [has_cycle_days |-> FALSE, cycle_days |-> 0, anchor_date |-> EmptyStr],
      [has_cycle_days |-> TRUE, cycle_days |-> 7, anchor_date |-> AnchorStr],
      [has_cycle_days |-> TRUE, cycle_days |-> CustomCycleDays, anchor_date |-> AnchorStr],
      [has_cycle_days |-> TRUE, cycle_days |-> CustomCycleDays, anchor_date |-> EmptyStr],
      [has_cycle_days |-> TRUE, cycle_days |-> CustomCycleDays, anchor_date |-> BadDateStr] }

Documents ==
    { [has_cycle_days |-> cs.has_cycle_days,
       cycle_days  |-> cs.cycle_days,
       anchor_date |-> cs.anchor_date,
       day         |-> dl,
       override    |-> ol] :
         cs \in CycleSettings, dl \in DayLists, ol \in OverrideLists(MaxOverrides) }

\* two tasks with the same start and the same end
Gym ==
    Task("Gym", T0930, T1000)

Art ==
    Task("Art", T0930, T1000)

FillerNames ==
    <<"F1", "F2", "F3", "F4", "F5", "F6", "F7", "F8", "F9", "F10", "F11">>

\* the clock string of minute m of the day
ClockOf(m) ==
    Clock(Digits[(m \div 600) + 1], Digits[((m \div 60) % 10) + 1],
          Digits[((m % 60) \div 10) + 1], Digits[(m % 10) + 1])

\* filler i lasts half an hour from 10:00 plus i half hours
Filler(i) ==
    Task(FillerNames[i], ClockOf(600 + 30 * i), ClockOf(630 + 30 * i))

\* the order the fillers are declared in
FillerOrder ==
    <<7, 10, 1, 6, 3, 11, 8, 9, 2, 5, 4>>

\* a day of maxInsertion + 1 tasks: Gym and Art, which start and end before
\* all others, and the fillers, out of order
LongDayTasks ==
    <<Gym, Art>> \o [i \in 1..(maxInsertion - 1) |-> Filler(FillerOrder[i])]

\* a weekly document whose Sunday is the long day and whose Monday and
\* Tuesday hold Gym and Art alone
LongDayDocuments ==
    { [has_cycle_days |-> FALSE, cycle_days |-> 0, anchor_date |-> EmptyStr,
       day      |-> <<Day(0, LongDayTasks), Day(1, <<Gym, Art>>),
                      Day(2, <<Art, Gym>>)>>,
       override |-> <<>>] }

\* the documents of the repeated query and of the JSON snapshot: a weekly
\* one and one of a custom cycle, Monday using slot 0
FewDocuments ==
    { [has_cycle_days |-> cs.has_cycle_days,
       cycle_days  |-> cs.cycle_days,
       anchor_date |-> cs.anchor_date,
       day         |-> <<Day(0, <<Math, Science>>), Day(1, <<Science, Math>>),
                         Day(2, <<Slash, Science>>)>>,
       override    |-> <<OverrideTable(MondayStr, EmptyStr, FALSE, IntRaw(0))>>] :
         cs \in { [has_cycle_days |-> FALSE, cycle_days |-> 0,
                   anchor_date |-> EmptyStr],
                  [has_cycle_days |-> TRUE, cycle_days |-> CustomCycleDays,
                   anchor_date |-> AnchorStr] } }

\* the schedules the watch loop runs on: weekly, without overrides
WatchDay(tasks) ==
    Day(1, tasks)

Warmup ==
    Task("Warmup", T0900, ClockOf(550))

Quiz ==
    Task("Quiz", ClockOf(555), ClockOf(585))

Dawn ==
    Task("Dawn", ClockOf(5), ClockOf(10))

WatchDayLists ==
    { <<WatchDay(<<Warmup, Gym, Art>>)>>,
      <<WatchDay(<<Math, Quiz>>)>>,
      <<WatchDay(<<Math, Broken>>), Day(2, <<Dawn>>)>>,
      <<>> }

WatchDocuments ==
    { [has_cycle_days |-> FALSE, cycle_days |-> 0, anchor_date |-> EmptyStr,
       day |-> dl, override |-> <<>>] : dl \in WatchDayLists }

\* the loop is started on Monday at 08:58:00 or at 23:59:50
WatchStarts ==
    {538 * TicksPerMinute, 1439 * TicksPerMinute + 10 * RetryPause}

\* --lookahead: none or 30 minutes
Lookaheads ==
    {0, 30 * TicksPerMinute}

\* --notify-ahead: not given, 0s, or 25 minutes
NotifyFlags ==
    { [enabled |-> FALSE, ahead |-> 0],
      [enabled |-> TRUE, ahead |-> 0],
      [enabled |-> TRUE, ahead |-> 25 * TicksPerMinute] }

\* the iterations of the loop that are followed
MaxIterations ==
    6

\* the first day queries are made on: 2024-03-10, a Sunday
FirstQueryDay ==
    AbsDay(2024, 3, 10)

QueryDays ==
    FirstQueryDay..(FirstQueryDay + NumQueryDays - 1)

\* wall-clock minutes queries are made at: 09:00, 09:30, 10:00
QueryMinutes ==
    {540, 570, 600}

Instants ==
    { Date(d, m, l) : d \in QueryDays, m \in QueryMinutes, l \in Locations }


(***************************************************************************)
(* The program: load the document, validate, make the Scheduler, query     *)
(***************************************************************************)

VARIABLES
    doc,         \* the TOML document read by LoadTOML
    phase,       \* "start", "loadfailed", "loaded", "invalid", "ready",
                 \* "done"; "asked", "between", "repeated" for a repeated
                 \* query; "snapshot", "printed" for the JSON snapshot;
                 \* "watching" for the watch loop
    cfg,         \* the Config the Scheduler holds
    op,          \* the query made last: "none", "current", "next",
                 \* "previous", "tasks", "cycleday"
    now,         \* its argument
    res,         \* the *TaskEvent result of current, next, previous
    events,      \* the []TaskEvent result of GetTasksForDate
    dayID,       \* the result of getCycleDayID
    days,        \* the days the loop of GetNextTask or GetPreviousTask went
                 \* through
    first,       \* the first query of a repeated one, with its results
    snap,        \* the goroutines of the JSON snapshot and their results
    active,      \* the rows of the table refreshTable highlights
    watch        \* the watch loop: its flags, clock, last-notified
                 \* signature, and what it printed and sent

vars ==
    <<doc, reverseTies, phase, cfg, op, now, res, events, dayID, days, first,
      snap, active, watch>>

NilConfig ==
    [CycleDays |-> 0, AnchorDate |-> EmptyStr, Days |-> <<>>, Overrides |-> <<>>]

NoEvents ==
    [err |-> FALSE, events |-> <<>>]

NoDayID ==
    [err |-> FALSE, id |-> 0]

NoFirst ==
    [op |-> "none", now |-> ZeroTime, res |-> NilResult, events |-> NoEvents,
     between |-> "none"]

NoSnap ==
    [now |-> ZeroTime, jsonAll |-> FALSE, pending |-> {}, wg |-> 0,
     currentTask |-> NilResult, nextTaskEvent |-> NilResult,
     previousTask |-> NilResult, dayTasks |-> NoEvents, isCurrent |-> <<>>]

NoWatch ==
    [pc |-> "off", lookahead |-> 0, notifyAhead |-> 0,
     notifyEnabled |-> FALSE, jsonFmt |-> FALSE,
     started |-> 0, now |-> 0, iterations |-> 0, failures |-> 0,
     failed |-> FALSE, lastNotifiedSig |-> NoSig, sent |-> <<>>,
     printed |-> 0,
     out |-> [previous |-> NilResult, current |-> NilResult,
              next |-> NilResult],
     realCurrent |-> NilResult, realNext |-> NilResult,
     waitDuration |-> 0, sleep |-> 0]

\* the state before the document is loaded
NothingDone ==
    /\ phase = "start"
    /\ cfg = NilConfig
    /\ op = "none"
    /\ now = ZeroTime
    /\ res = NilResult
    /\ events = NoEvents
    /\ dayID = NoDayID
    /\ days = 0
    /\ first = NoFirst
    /\ snap = NoSnap
    /\ active = {}
    /\ watch = NoWatch

\* no day of Documents has more than maxInsertion tasks, so that the order
\* of ties does not bear on them
Init ==
    /\ doc \in Documents
    /\ reverseTies = FALSE
    /\ NothingDone

\* config.Load of a .toml file
Load ==
    /\ phase = "start"
    /\ LET r == LoadTOML(doc)
       IN IF r.err
          THEN phase' = "loadfailed" /\ cfg' = cfg
          ELSE phase' = "loaded" /\ cfg' = r.cfg
    /\ UNCHANGED <<doc, reverseTies, op, now, res, events, dayID, days, first,
                   snap,
                   active, watch>>

\* run and runTUI: cfg.Validate(), then scheduler.New(cfg)
ValidateAndNew ==
    /\ phase = "loaded"
    /\ phase' = IF Validate(cfg) THEN "ready" ELSE "invalid"
    /\ UNCHANGED <<doc, reverseTies, cfg, op, now, res, events, dayID, days,
                   first, snap,
                   active, watch>>

\* scheduler.New on a Config that was not validated, as the package's own
\* callers may do
New ==
    /\ phase = "loaded"
    /\ phase' = "ready"
    /\ UNCHANGED <<doc, reverseTies, cfg, op, now, res, events, dayID, days,
                   first, snap,
                   active, watch>>

CallCurrent(t) ==
    /\ phase = "ready" /\ phase' = "done"
    /\ op' = "current" /\ now' = t
    /\ res' = GetCurrentTask(cfg, t)
    /\ events' = NoEvents /\ dayID' = NoDayID /\ days' = 0
    /\ cfg' = ConfigAfterQuery(cfg)
    /\ UNCHANGED <<doc, reverseTies, first, snap,
                   active, watch>>

CallNext(t) ==
    /\ phase = "ready" /\ phase' = "done"
    /\ op' = "next" /\ now' = t
    /\ \E w \in {NextFrom(cfg, t, 0)} : res' = w.res /\ days' = w.days
    /\ events' = NoEvents /\ dayID' = NoDayID
    /\ cfg' = ConfigAfterQuery(cfg)
    /\ UNCHANGED <<doc, reverseTies, first, snap,
                   active, watch>>

CallPrevious(t) ==
    /\ phase = "ready" /\ phase' = "done"
    /\ op' = "previous" /\ now' = t
    /\ \E w \in {PreviousFrom(cfg, t, 0)} : res' = w.res /\ days' = w.days
    /\ events' = NoEvents /\ dayID' = NoDayID
    /\ cfg' = ConfigAfterQuery(cfg)
    /\ UNCHANGED <<doc, reverseTies, first, snap,
                   active, watch>>

CallTasksForDate(t) ==
    /\ phase = "ready" /\ phase' = "done"
    /\ op' = "tasks" /\ now' = t
    /\ events' = GetTasksForDate(cfg, t)
    /\ res' = NilResult /\ dayID' = NoDayID /\ days' = 0
    /\ active' = IF events'.err THEN active
                 ELSE ActiveRows(events'.events, t, t)
    /\ cfg' = ConfigAfterQuery(cfg)
    /\ UNCHANGED <<doc, reverseTies, first, snap, watch>>

CallCycleDayID(t) ==
    /\ phase = "ready" /\ phase' = "done"
    /\ op' = "cycleday" /\ now' = t
    /\ dayID' = getCycleDayID(cfg, t)
    /\ res' = NilResult /\ events' = NoEvents /\ days' = 0
    /\ cfg' = ConfigAfterQuery(cfg)
    /\ UNCHANGED <<doc, reverseTies, first, snap,
                   active, watch>>

Next ==
    \/ Load
    \/ ValidateAndNew
    \/ New
    \/ \E t \in Instants : CallCurrent(t)
    \/ \E t \in Instants : CallNext(t)
    \/ \E t \in Instants : CallPrevious(t)
    \/ \E t \in Instants : CallTasksForDate(t)
    \/ \E t \in Instants : CallCycleDayID(t)

Spec ==
    Init /\ [][Next]_vars


\* the specification of the sort of long days: either order of ties
InitLongDay ==
    /\ doc \in LongDayDocuments
    /\ reverseTies \in BOOLEAN
    /\ NothingDone

SpecLongDay ==
    InitLongDay /\ [][Next]_vars

InitFew ==
    /\ doc \in FewDocuments
    /\ reverseTies = FALSE
    /\ NothingDone

\* the queries a caller repeats
Queries ==
    {"current", "next", "previous", "tasks"}

\* what query q of the Scheduler on c returns at t
Answer(q, c, t) ==
    LET none == [res |-> NilResult, events |-> NoEvents, days |-> 0]
    IN CASE q = "current"  -> [none EXCEPT !.res = GetCurrentTask(c, t)]
         [] q = "next"     -> NextFrom(c, t, 0) @@ none
         [] q = "previous" -> PreviousFrom(c, t, 0) @@ none
         [] q = "tasks"    -> [none EXCEPT !.events = GetTasksForDate(c, t)]

\* A caller makes a query, then possibly another one, then the first again:
\* query q at t is the first one, the one in between, or the repetition
Query(q, t) ==
    /\ \/ phase = "ready" /\ phase' = "asked"
       \/ phase = "asked" /\ phase' = "between"
       \/ /\ phase \in {"asked", "between"} /\ phase' = "repeated"
          /\ q = first.op /\ t = first.now
    /\ op' = q /\ now' = t
    /\ \E a \in {Answer(q, cfg, t)} :
          /\ res' = a.res
          /\ events' = a.events
          /\ days' = a.days
    /\ cfg' = ConfigAfterQuery(cfg)
    /\ first' = IF phase = "ready"
                THEN [op |-> q, now |-> t, res |-> res',
                      events |-> events', between |-> "none"]
                ELSE IF phase' = "between"
                THEN [first EXCEPT !.between = q]
                ELSE first
    /\ UNCHANGED <<doc, reverseTies, dayID, snap,
                   active, watch>>

NextRepeat ==
    \/ Load
    \/ ValidateAndNew
    \/ New
    \/ \E q \in Queries, t \in Instants : Query(q, t)

SpecRepeat ==
    InitFew /\ [][NextRepeat]_vars

\* run with the JSON format: the goroutines are started with wg.Add
StartSnapshot(t, jsonAll) ==
    /\ phase = "ready" /\ phase' = "snapshot"
    /\ snap' = [NoSnap EXCEPT
                  !.now = t, !.jsonAll = jsonAll,
                  !.pending = {"current", "next", "previous"}
                                \cup (IF jsonAll THEN {"tasks"} ELSE {}),
                  !.wg = 3 + (IF jsonAll THEN 1 ELSE 0)]
    /\ UNCHANGED <<doc, reverseTies, cfg, op, now, res, events, dayID, days,
                   first,
                   active, watch>>

\* a goroutine g runs: it leaves the pending ones and calls wg.Done
Done(g) ==
    /\ phase = "snapshot"
    /\ g \in snap.pending
    /\ cfg' = ConfigAfterQuery(cfg)
    /\ UNCHANGED <<doc, reverseTies, phase, op, now, res, events, dayID, days,
                   first,
                   active, watch>>

GoCurrent ==
    /\ Done("current")
    /\ snap' = [snap EXCEPT !.currentTask = GetCurrentTask(cfg, snap.now),
                            !.pending = @ \ {"current"}, !.wg = @ - 1]

GoNext ==
    /\ Done("next")
    /\ snap' = [snap EXCEPT !.nextTaskEvent = GetNextTask(cfg, snap.now),
                            !.pending = @ \ {"next"}, !.wg = @ - 1]

GoPrevious ==
    /\ Done("previous")
    /\ snap' = [snap EXCEPT !.previousTask = GetPreviousTask(cfg, snap.now),
                            !.pending = @ \ {"previous"}, !.wg = @ - 1]

GoDayTasks ==
    /\ Done("tasks")
    /\ snap' = [snap EXCEPT !.dayTasks = GetTasksForDate(cfg, snap.now),
                            !.pending = @ \ {"tasks"}, !.wg = @ - 1]

\* wg.Wait returns when the counter is zero; the results are then printed
Wait ==
    /\ phase = "snapshot"
    /\ snap.wg = 0
    /\ phase' = "printed"
    /\ snap' = IF \/ snap.currentTask.err \/ snap.nextTaskEvent.err
                  \/ snap.previousTask.err \/ snap.dayTasks.err
               THEN snap
               ELSE [snap EXCEPT !.isCurrent =
                        IsCurrentFlags(snap.dayTasks.events, snap.currentTask)]
    /\ UNCHANGED <<doc, reverseTies, cfg, op, now, res, events, dayID, days,
                   first, active, watch>>

NextSnapshot ==
    \/ Load
    \/ ValidateAndNew
    \/ New
    \/ \E t \in Instants, jsonAll \in BOOLEAN : StartSnapshot(t, jsonAll)
    \/ GoCurrent
    \/ GoNext
    \/ GoPrevious
    \/ GoDayTasks
    \/ Wait

SpecSnapshot ==
    InitFew /\ [][NextSnapshot]_vars


\* runWatch is entered at clock value t with the flags of the command line
StartWatch(t, lookahead, notify, jsonFmt) ==
    /\ phase = "ready" /\ phase' = "watching"
    /\ watch' = [NoWatch EXCEPT
                   !.pc = "run", !.started = t, !.now = t,
                   !.lookahead = lookahead,
                   !.notifyAhead = notify.ahead,
                   !.notifyEnabled = notify.enabled,
                   !.jsonFmt = jsonFmt]
    /\ UNCHANGED <<doc, reverseTies, cfg, op, now, res, events, dayID, days,
                   first, snap, active>>

\* one iteration of the loop, from now := time.Now() to the call of
\* time.Sleep
Iterate ==
    /\ phase = "watching"
    /\ watch.pc = "run"
    /\ watch.iterations < MaxIterations
    /\ \E cur \in {GetCurrentTask(cfg, InstantAt(watch.now + watch.lookahead))},
          nxt \in {GetNextTask(cfg, InstantAt(watch.now + watch.lookahead))},
          prv \in {IF watch.jsonFmt
                   THEN GetPreviousTask(cfg,
                           InstantAt(watch.now + watch.lookahead))
                   ELSE NilResult} :
          watch' = IF IterationFails(cur, nxt, prv)
                   THEN FailedIteration(watch)
                   ELSE CompletedIteration(watch, cur, nxt, prv)
    /\ cfg' = ConfigAfterQuery(cfg)
    /\ UNCHANGED <<doc, reverseTies, phase, op, now, res, events, dayID, days,
                   first, snap, active>>

\* time.Sleep returns
Sleep ==
    /\ phase = "watching"
    /\ watch.pc = "sleep"
    /\ watch' = [watch EXCEPT !.pc = "run", !.now = @ + watch.sleep]
    /\ UNCHANGED <<doc, reverseTies, phase, cfg, op, now, res, events, dayID,
                   days, first, snap, active>>

InitWatch ==
    /\ doc \in WatchDocuments
    /\ reverseTies = FALSE
    /\ NothingDone

NextWatch ==
    \/ Load
    \/ ValidateAndNew
    \/ New
    \/ \E t \in WatchStarts, l \in Lookaheads, n \in NotifyFlags,
          j \in BOOLEAN : StartWatch(t, l, n, j)
    \/ Iterate
    \/ Sleep

SpecWatch ==
    InitWatch /\ [][NextWatch]_vars


(***************************************************************************)
(* What the claims speak of                                                *)
(***************************************************************************)

\* the cycle length and the search bound as the specification states them
CycleLength ==
    cfg.CycleDays

SearchBound ==
    IF 2 * CycleLength > 7 THEN 2 * CycleLength ELSE 7

\* the templates of the slot resolved for date (none when resolving fails)
TemplatesOn(date) ==
    LET d == getCycleDayID(cfg, date)
    IN IF d.err THEN <<>> ELSE getTasksForDay(cfg, d.id)

\* the instance of template t on the calendar day of date
InstanceOf(t, date) ==
    LET p == parseTaskTimes(date, t)
    IN [Name |-> t.Name, StartTime |-> p.start, EndTime |-> p.end]

WellFormed(t, date) ==
    ~parseTaskTimes(date, t).err

\* the non-placeholder task instances of the calendar day of date
InstancesOn(date) ==
    LET ts == TemplatesOn(date)
    IN { InstanceOf(ts[i], date) :
           i \in { j \in 1..Len(ts) :
                     WellFormed(ts[j], date) /\ ts[j].Name # Placeholder } }

\* template i of ts contains now: start <= now < end
Contains(ts, i, t) ==
    /\ WellFormed(ts[i], t)
    /\ Unix(InstanceOf(ts[i], t).StartTime) <= Unix(t)
    /\ Unix(t) < Unix(InstanceOf(ts[i], t).EndTime)

Returned ==
    ~res.err /\ ~res.isNil

InstancesAhead ==
    UNION { InstancesOn(AddDate(now, i)) : i \in 0..(SearchBound - 1) }

\* the non-placeholder instances of the SearchBound days that end at now
InstancesBehind ==
    UNION { InstancesOn(AddDate(now, -i)) : i \in 0..(SearchBound - 1) }

\* C2: a task returned by GetNextTask(t) starts strictly after t, and no
\* non-placeholder instance of the max(2*cycleLength, 7) days beginning at
\* t's date starts after t and before it.
C2_NextIsEarliest ==
    op = "next" /\ Returned =>
        /\ Unix(res.ev.StartTime) > Unix(now)
        /\ res.ev \in InstancesAhead
        /\ \A e \in InstancesAhead :
              ~( /\ Unix(e.StartTime) > Unix(now)
                 /\ Unix(e.StartTime) < Unix(res.ev.StartTime) )

\* C2 witness: the next task is found on a later day, while today holds
\* instances that have started and later days hold later ones
C2_Witness ==
    /\ op = "next" /\ Returned
    /\ res.ev.StartTime.day > now.day
    /\ \E e \in InstancesAhead : Unix(e.StartTime) <= Unix(now)
    /\ \E e \in InstancesAhead : Unix(e.StartTime) > Unix(res.ev.StartTime)

\* C3: a task returned by GetPreviousTask(t) has end <= t, and no
\* non-placeholder instance of the max(2*cycleLength, 7) days ending at t's
\* date has an end that is <= t and later than its end.
C3_PreviousIsLatest ==
    op = "previous" /\ Returned =>
        /\ Unix(res.ev.EndTime) <= Unix(now)
        /\ res.ev \in InstancesBehind
        /\ \A e \in InstancesBehind :
              ~( /\ Unix(e.EndTime) <= Unix(now)
                 /\ Unix(e.EndTime) > Unix(res.ev.EndTime) )

\* C3 witness: the previous task ends exactly at the instant of the query,
\* and another instance ended before it
C3_Witness ==
    /\ op = "previous" /\ Returned
    /\ Unix(res.ev.EndTime) = Unix(now)
    /\ \E e \in InstancesBehind : Unix(e.EndTime) < Unix(res.ev.EndTime)


\* override i of the list names the calendar day of date
Matches(i, date) ==
    cfg.Overrides[i].Date.day = date.day

\* override i is the first of the list that names the calendar day of date
FirstMatch(i, date) ==
    Matches(i, date) /\ \A j \in 1..(i - 1) : ~Matches(j, date)

\* the configuration without its overrides
WithoutOverrides ==
    [cfg EXCEPT !.Overrides = <<>>]

\* what GetTasksForDate and GetCurrentTask return on an off day
OffDayAnswer ==
    /\ op = "tasks" => events = NoEvents
    /\ op = "current" => res = NilResult

\* C4 (as stated): an override marked off for date D makes GetTasksForDate(D)
\* empty and GetCurrentTask(t) none for every t on D.
C4_AnyOffOverride ==
    ( /\ op \in {"tasks", "current"}
      /\ \E i \in 1..Len(cfg.Overrides) :
            Matches(i, now) /\ cfg.Overrides[i].IsOff )
    => OffDayAnswer

\* C4 (amended): an override marked off for date D that is the first
\* override of the list matching D makes GetTasksForDate(D) empty and
\* GetCurrentTask(t) none for every t on D, whatever the computed slot holds.
C4_FirstOffOverride ==
    ( /\ op \in {"tasks", "current"}
      /\ \E i \in 1..Len(cfg.Overrides) :
            FirstMatch(i, now) /\ cfg.Overrides[i].IsOff )
    => OffDayAnswer

\* C4 witness: a query for the current task on an off day at an instant at
\* which the computed slot has a task in progress
C4_Witness ==
    /\ op = "current"
    /\ \E i \in 1..Len(cfg.Overrides) :
          FirstMatch(i, now) /\ cfg.Overrides[i].IsOff
    /\ ~GetCurrentTask(WithoutOverrides, now).isNil

\* the templates of slot n: those of the first [[day]] with that id, none for
\* the off sentinel
SlotTemplates(n) ==
    LET ids == { i \in 1..Len(cfg.Days) : cfg.Days[i].ID = n }
    IN IF ids = {} \/ n = OffDay THEN <<>>
       ELSE cfg.Days[CHOOSE i \in ids : \A j \in ids : i <= j].Tasks

\* the answers of the queries on date when its day uses the templates ts
TasksAnswerWith(ts, date) ==
    LET de == DayEvents(ts, date)
    IN IF de.err THEN [err |-> TRUE, events |-> <<>>]
       ELSE [err |-> FALSE, events |-> SortByStart(de.events)]

UsesSlot(n) ==
    /\ op = "tasks" => events = TasksAnswerWith(SlotTemplates(n), now)
    /\ op = "current" => res = CurrentFrom(SlotTemplates(n), now, 1)

\* the event e is an instance of a template of slot n
FromSlot(e, n) ==
    \E k \in 1..Len(SlotTemplates(n)) :
       /\ WellFormed(SlotTemplates(n)[k], e.StartTime)
       /\ e = InstanceOf(SlotTemplates(n)[k], e.StartTime)

\* C5 (as stated): an override 'use day-slot N' on date D makes every query
\* on D use exactly the task templates of slot N.
C5_AnyUseOverride ==
    \A i \in 1..Len(cfg.Overrides) :
       ( /\ op \in {"tasks", "current"}
         /\ Matches(i, now) /\ ~cfg.Overrides[i].IsOff )
       => UsesSlot(cfg.Overrides[i].UseDayID)

\* C5 (amended): an override 'use day-slot N' on date D that is the first
\* override of the list matching D makes every query on D use exactly the
\* task templates of slot N (the current task and the tasks of D are those
\* of slot N, and a next or previous task dated D is an instance of one of
\* them); the computed slot has no influence.
C5_FirstUseOverride ==
    \A i \in 1..Len(cfg.Overrides) :
       /\ ( /\ op \in {"tasks", "current"}
            /\ FirstMatch(i, now) /\ ~cfg.Overrides[i].IsOff )
          => UsesSlot(cfg.Overrides[i].UseDayID)
       /\ ( /\ op \in {"next", "previous"} /\ Returned
            /\ FirstMatch(i, res.ev.StartTime) /\ ~cfg.Overrides[i].IsOff )
          => FromSlot(res.ev, cfg.Overrides[i].UseDayID)

\* C5 witness: the current task of a day whose override names a slot other
\* than the computed one, where the computed slot has another task in progress
C5_Witness ==
    /\ op = "current" /\ Returned
    /\ \E i \in 1..Len(cfg.Overrides) :
          /\ FirstMatch(i, now) /\ ~cfg.Overrides[i].IsOff
          /\ getCycleDayID(WithoutOverrides, now).id # cfg.Overrides[i].UseDayID
    /\ ~GetCurrentTask(WithoutOverrides, now).isNil
    /\ GetCurrentTask(WithoutOverrides, now) # res

\* the calendar day a date string names
DayOf(str) ==
    ParseDate(str).t.day

\* C6: an off override carrying the inclusive range [date, end_date] makes
\* GetCurrentTask none on every calendar date of the range.
C6_RangeIsOff ==
    ( /\ op = "current"
      /\ Len(doc.override) = 1
      /\ doc.override[1].is_off
      /\ doc.override[1].end_date # EmptyStr
      /\ DayOf(doc.override[1].date) <= now.day
      /\ now.day <= DayOf(doc.override[1].end_date)
      /\ ~res.err )
    => res.isNil

\* date is off by the override list: the first override matching it is off
OffByOverride(date) ==
    \E i \in 1..Len(cfg.Overrides) :
       FirstMatch(i, date) /\ cfg.Overrides[i].IsOff

\* C7: GetNextTask never returns an instance dated on an off day; it passes
\* over the days that hold nothing starting after t and returns from the
\* first day that does.
C7_NextSkipsOffDays ==
    op = "next" /\ Returned =>
        /\ ~OffByOverride(res.ev.StartTime)
        /\ res.ev.StartTime.day >= now.day
        /\ \A i \in 0..(res.ev.StartTime.day - now.day - 1) :
              \A e \in InstancesOn(AddDate(now, i)) :
                 Unix(e.StartTime) <= Unix(now)

\* C7 witness: the next task lies beyond an off day that follows the day of
\* the query
C7_Witness ==
    /\ op = "next" /\ Returned
    /\ res.ev.StartTime.day > now.day + 1
    /\ OffByOverride(AddDate(now, 1))
    /\ ~GetNextTask(WithoutOverrides, now).isNil
    /\ GetNextTask(WithoutOverrides, now).ev.StartTime.day = now.day + 1

\* C8: absent overrides the day-slot is periodic with period cycleLength.
C8_Periodic ==
    ( /\ op = "cycleday"
      /\ Validate(cfg)
      /\ cfg.Overrides = <<>>
      /\ ~dayID.err )
    => getCycleDayID(cfg, AddDate(now, CycleLength)) = dayID

\* C9: for an anchored cycle with no matching override the slot is the
\* Euclidean remainder of the whole days from the anchor date modulo
\* cycleLength.
C9_EuclideanSlot ==
    ( /\ op = "cycleday"
      /\ Validate(cfg)
      /\ cfg.AnchorDate # EmptyStr
      /\ \A i \in 1..Len(cfg.Overrides) : ~Matches(i, now)
      /\ ~dayID.err )
    => /\ dayID.id = (now.day - DayOf(cfg.AnchorDate)) % CycleLength
       /\ dayID.id \in 0..(CycleLength - 1)

\* C10: the resolved day-slot is the OFF sentinel or lies in
\* [0, cycleLength), for every override list ProcessOverrides accepts.
C10_SlotInRange ==
    ( /\ op = "cycleday"
      /\ Validate(cfg)
      /\ ~dayID.err )
    => dayID.id = OffDay \/ dayID.id \in 0..(CycleLength - 1)

\* C11: GetTasksForDate returns the instances of the day's templates in
\* ascending order of start, whatever the order of declaration, and an empty
\* sequence without error when the day is off or its slot has no templates.
C11_TasksAscending ==
    op = "tasks" =>
        LET ts == TemplatesOn(now)
            es == events.events
        IN /\ ~events.err =>
                /\ \A i \in 1..(Len(es) - 1) :
                      Unix(es[i].StartTime) <= Unix(es[i + 1].StartTime)
                /\ \A k \in 1..Len(ts) :
                      ts[k].Name # Placeholder =>
                         \E i \in 1..Len(es) : es[i] = InstanceOf(ts[k], now)
                /\ \A i \in 1..Len(es) :
                      \E k \in 1..Len(ts) : es[i] = InstanceOf(ts[k], now)
           /\ OffByOverride(now) => events = NoEvents
           /\ (~getCycleDayID(cfg, now).err /\ ts = <<>>) => events = NoEvents

\* C11 witness: the tasks of a day whose templates are declared with the
\* later one first
C11_Witness ==
    /\ op = "tasks" /\ ~events.err
    /\ Len(TemplatesOn(now)) >= 2
    /\ Unix(InstanceOf(TemplatesOn(now)[1], now).StartTime)
          > Unix(InstanceOf(TemplatesOn(now)[2], now).StartTime)
    /\ events.events[1] = InstanceOf(TemplatesOn(now)[2], now)

\* C11 witness of the off day: a day that is off and whose computed slot has
\* templates
C11_OffWitness ==
    /\ op = "tasks" /\ OffByOverride(now)
    /\ ~GetTasksForDate(WithoutOverrides, now).err
    /\ GetTasksForDate(WithoutOverrides, now).events # <<>>

\* C12: the sequence GetTasksForDate returns never holds an instance named
\* with the placeholder "/".
C12_NoPlaceholder ==
    op = "tasks" =>
        \A i \in 1..Len(events.events) : events.events[i].Name # Placeholder

\* the place of the template of event e in the declaration of its day (the
\* tasks of a day have distinct names in the documents of SpecLongDay)
DeclIndex(e) ==
    LET ts == TemplatesOn(e.StartTime)
    IN CHOOSE k \in 1..Len(ts) : ts[k].Name = e.Name

\* the instances of the day of e that are declared before it
DeclaredBefore(e) ==
    LET ts == TemplatesOn(e.StartTime)
    IN { InstanceOf(ts[k], e.StartTime) : k \in 1..(DeclIndex(e) - 1) }

\* C13: templates of one day with identical starts are listed by
\* GetTasksForDate in declaration order and GetNextTask returns the one
\* declared first; of templates with identical ends GetPreviousTask returns
\* the one declared first.
C13_TiesInDeclarationOrder ==
    /\ (op = "tasks" /\ ~events.err) =>
          \A i, j \in 1..Len(events.events) :
             ( /\ i < j
               /\ Equal(events.events[i].StartTime, events.events[j].StartTime) )
             => DeclIndex(events.events[i]) < DeclIndex(events.events[j])
    /\ (op = "next" /\ Returned) =>
          \A e \in DeclaredBefore(res.ev) :
             ~Equal(e.StartTime, res.ev.StartTime)
    /\ (op = "previous" /\ Returned) =>
          \A e \in DeclaredBefore(res.ev) :
             ~Equal(e.EndTime, res.ev.EndTime)

\* what override i decides: off, or its slot
Decision(i) ==
    IF cfg.Overrides[i].IsOff THEN OffDay ELSE cfg.Overrides[i].UseDayID

\* C14: when several overrides match a date, the first of the list decides
\* the slot of the date (off, or its slot N); the later ones have no effect.
C14_FirstOverrideDecides ==
    \A i, j \in 1..Len(cfg.Overrides) :
       ( /\ op = "cycleday"
         /\ FirstMatch(i, now)
         /\ i < j /\ Matches(j, now) )
       => dayID = [err |-> FALSE, id |-> Decision(i)]

\* C14 witness: two overrides match the date and decide differently
C14_Witness ==
    /\ op = "cycleday"
    /\ \E i, j \in 1..Len(cfg.Overrides) :
          /\ FirstMatch(i, now)
          /\ i < j /\ Matches(j, now)
          /\ Decision(i) # Decision(j)

\* 2024-03-10 is a Sunday
KnownSunday ==
    AbsDay(2024, 3, 10)

\* the weekday of date, Sunday = 0, ..., Saturday = 6
WeekdayIndex(date) ==
    (date.day - KnownSunday) % 7

\* the cycle is the week without anchor and no override matches date
PlainWeekday(date) ==
    /\ cfg.CycleDays = 7
    /\ cfg.AnchorDate = EmptyStr
    /\ \A i \in 1..Len(cfg.Overrides) : ~Matches(i, date)

\* C15: with cycle length 7, no anchor date and no matching override the slot
\* of a date is its weekday, Sunday = 0 to Saturday = 6, so that a Monday
\* uses the templates declared under id 1.
C15_WeekdaySlot ==
    PlainWeekday(now) =>
        /\ op = "cycleday" =>
              dayID = [err |-> FALSE, id |-> WeekdayIndex(now)]
        /\ (op \in {"tasks", "current"} /\ WeekdayIndex(now) = 1) => UsesSlot(1)

\* C15 witness: the tasks of a Monday, of which id 1 declares some
C15_Witness ==
    /\ op = "tasks" /\ PlainWeekday(now)
    /\ WeekdayIndex(now) = 1
    /\ SlotTemplates(1) # <<>>
    /\ ~events.err /\ events.events # <<>>

\* the slot of now's date resolves and holds a template with a start or end
\* that is no clock time
MalformedToday ==
    /\ ~getCycleDayID(cfg, now).err
    /\ \E k \in 1..Len(TemplatesOn(now)) : ~WellFormed(TemplatesOn(now)[k], now)

\* C16: when the slot of now's date holds a template with a malformed start
\* or end, each of the four queries returns an error, wherever the template
\* is declared in the slot.
C16_MalformedAlwaysError ==
    MalformedToday =>
        /\ op \in {"current", "next", "previous"} => res.err
        /\ op = "tasks" => events.err

\* the cycle is not the week and has no anchor date
NoAnchor ==
    cfg.CycleDays # 7 /\ cfg.AnchorDate = EmptyStr

\* the last query returned an error
Failed ==
    /\ op \in {"current", "next", "previous"} => res.err
    /\ op = "tasks" => events.err
    /\ op = "cycleday" => dayID.err

\* C17 (as stated): with a cycle length other than 7 and no anchor date every
\* query returns an error, for every date.
C17_NoAnchorAlwaysError ==
    (op # "none" /\ NoAnchor) => Failed

\* C17 (amended): with a cycle length other than 7 and no anchor date every
\* query at an instant whose date no override matches returns an error.
C17_NoAnchorUnmatchedError ==
    ( /\ op # "none" /\ NoAnchor
      /\ \A i \in 1..Len(cfg.Overrides) : ~Matches(i, now) )
    => Failed

\* C17 witness: the next task is asked for on a date no override matches,
\* the day after one that an override matches
C17_Witness ==
    /\ op = "next" /\ NoAnchor
    /\ \A i \in 1..Len(cfg.Overrides) : ~Matches(i, now)
    /\ \E i \in 1..Len(cfg.Overrides) : Matches(i, AddDate(now, -1))

CleanWindow(sign) ==
    \A i \in 0..(SearchBound - 1) :
       /\ ~getCycleDayID(cfg, AddDate(now, sign * i)).err
       /\ \A k \in 1..Len(TemplatesOn(AddDate(now, sign * i))) :
             WellFormed(TemplatesOn(AddDate(now, sign * i))[k],
                        AddDate(now, sign * i))

HasTask(n) ==
    \E k \in 1..Len(SlotTemplates(n)) :
       /\ WellFormed(SlotTemplates(n)[k], now)
       /\ SlotTemplates(n)[k].Name # Placeholder

\* a validated schedule without overrides, one slot of which has a task
PlainCycleWithTask ==
    /\ Validate(cfg)
    /\ cfg.Overrides = <<>>
    /\ \E n \in 0..(CycleLength - 1) : HasTask(n)

\* every template of the schedule has clock times
AllWellFormed ==
    \A d \in 1..Len(cfg.Days) : \A k \in 1..Len(cfg.Days[d].Tasks) :
       WellFormed(cfg.Days[d].Tasks[k], now)

\* C26 (as stated): absent overrides, when one slot id in [0, cycleLength)
\* has a well-formed template that is no placeholder, GetNextTask(t) and
\* GetPreviousTask(t) return a task at every instant t.
C26_AlwaysSomeTask ==
    (op \in {"next", "previous"} /\ PlainCycleWithTask) => Returned

\* C26 (amended): absent overrides, when every template of the schedule is
\* well formed and one slot id in [0, cycleLength) has a template that is
\* no placeholder, GetNextTask(t) and GetPreviousTask(t) return a task at
\* every instant t.
C26_SomeTaskWhenWellFormed ==
    (op \in {"next", "previous"} /\ PlainCycleWithTask /\ AllWellFormed)
    => Returned

\* C26 witness: the previous task is found on an earlier day, the day of t
\* having no task that has ended
C26_Witness ==
    /\ op = "previous" /\ PlainCycleWithTask /\ AllWellFormed
    /\ Returned
    /\ res.ev.EndTime.day < now.day
    /\ days > 1

\* C27: GetCurrentTask(t) returns a task whenever a template of the slot of
\* t's date that is no placeholder has start <= t < end, also when a
\* placeholder or another template of the slot contains t.
C27_CurrentWheneverContained ==
    ( /\ op = "current" /\ ~res.err
      /\ \E i \in 1..Len(TemplatesOn(now)) :
            /\ TemplatesOn(now)[i].Name # Placeholder
            /\ Contains(TemplatesOn(now), i, now) )
    => Returned

\* C29: a configuration that Validate accepts never makes getCycleDayID
\* fail: it returns a slot or OFF for every date.
C29_ValidatedResolves ==
    (op = "cycleday" /\ Validate(cfg)) => ~dayID.err

\* C29 witness: a date of an anchored cycle other than the week, which no
\* override matches, resolves to a slot after the first
C29_Witness ==
    /\ op = "cycleday" /\ Validate(cfg)
    /\ cfg.CycleDays # 7
    /\ \A i \in 1..Len(cfg.Overrides) : ~Matches(i, now)
    /\ ~dayID.err /\ dayID.id > 0

\* C28: in the table of the tasks of today refreshTable draws, and in the
\* tasks of the JSON output, an entry is marked as active exactly when it is
\* the instance GetCurrentTask(now) returns.
C28_MarkedIsCurrent ==
    /\ (op = "tasks" /\ ~events.err /\ ~GetCurrentTask(cfg, now).err) =>
          \A i \in 1..Len(events.events) :
             i \in active <=>
                GetCurrentTask(cfg, now) = EventResult(events.events[i])
    /\ (phase = "printed" /\ snap.isCurrent # <<>>) =>
          \A i \in 1..Len(snap.dayTasks.events) :
             snap.isCurrent[i] <=>
                GetCurrentTask(cfg, snap.now)
                   = EventResult(snap.dayTasks.events[i])

\* the instant the queries of the iteration at clock value k are made at
EffectiveNow(k) ==
    InstantAt(k + watch.lookahead)

\* the candidates of the wake target: the end of the current task and the
\* start of the next one, both less the lookahead, and the start of the next
\* one less notify-ahead when notifications are enabled
Candidates ==
    LET cur == GetCurrentTask(cfg, EffectiveNow(watch.now))
        nxt == GetNextTask(cfg, EffectiveNow(watch.now))
    IN (IF cur.isNil THEN {}
        ELSE {TicksOf(cur.ev.EndTime) - watch.lookahead})
       \cup (IF nxt.isNil THEN {}
             ELSE {TicksOf(nxt.ev.StartTime) - watch.lookahead})
       \cup (IF nxt.isNil \/ ~watch.notifyEnabled THEN {}
             ELSE {TicksOf(nxt.ev.StartTime) - watch.notifyAhead})

FutureCandidates ==
    { c \in Candidates : c > watch.now }

\* an iteration whose queries succeeded has just called time.Sleep
Sleeping ==
    phase = "watching" /\ watch.pc = "sleep" /\ ~watch.failed

\* C21: the wake target of the watch loop is the smallest candidate strictly
\* after now among the end of the current task and the start of the next one
\* (both less the lookahead) and, with notifications enabled, the start of
\* the next one less notify-ahead; without a candidate after now the loop
\* waits one minute.
C21_WakeTarget ==
    Sleeping =>
        /\ IF FutureCandidates = {}
           THEN watch.waitDuration = PollWait
           ELSE /\ watch.now + watch.waitDuration \in FutureCandidates
                /\ \A c \in FutureCandidates :
                      watch.now + watch.waitDuration <= c
        /\ watch.sleep = watch.waitDuration + Buffer

\* C21 witness: three different candidates after now, of which the
\* notification trigger is the smallest
C21_Witness ==
    /\ Sleeping
    /\ Cardinality(FutureCandidates) = 3
    /\ watch.now + watch.waitDuration
          = TicksOf(watch.realNext.ev.StartTime) - watch.notifyAhead

\* C21 witness: no candidate, and a wait of one minute
C21_PollWitness ==
    /\ Sleeping
    /\ Candidates = {}
    /\ watch.waitDuration = PollWait

\* the minutes of the sleep that are looked at
CheckSpan ==
    120

\* the whole minutes after now and before the wake target
MinutesAsleep ==
    LET from == (watch.now \div TicksPerMinute) + 1
        to   == (watch.now + watch.waitDuration - 1) \div TicksPerMinute
    IN from..(IF to < from + CheckSpan THEN to ELSE from + CheckSpan)

\* what the loop would print at clock value k
OutputAt(k) ==
    Output(watch, GetCurrentTask(cfg, EffectiveNow(k)),
           GetNextTask(cfg, EffectiveNow(k)),
           IF watch.jsonFmt THEN GetPreviousTask(cfg, EffectiveNow(k))
           ELSE NilResult)

\* C22: the answers the loop prints stay the same at every instant from now
\* up to the wake target: the loop never sleeps past a change of an answer.
C22_NoChangeAsleep ==
    Sleeping =>
        \A m \in MinutesAsleep : OutputAt(m * TicksPerMinute) = watch.out

\* the task instances of the day of the clock that started at or after the
\* start of the loop
StartedSinceStart ==
    { e \in InstancesOn(InstantAt(watch.now)) :
        watch.started <= TicksOf(e.StartTime) }

\* C23: with notify-ahead d > 0, every task instance that started while the
\* loop was running had a notification sent for it at an instant of
\* [start - d, start].
C23_NotifiedAhead ==
    ( /\ phase = "watching" /\ watch.pc = "run"
      /\ watch.notifyEnabled /\ watch.notifyAhead > 0
      /\ watch.failures = 0 )
    => \A e \in StartedSinceStart :
          TicksOf(e.StartTime) < watch.now =>
             \E i \in 1..Len(watch.sent) :
                /\ watch.sent[i].sig = Sig(e)
                /\ TicksOf(e.StartTime) - watch.notifyAhead <= watch.sent[i].at
                /\ watch.sent[i].at <= TicksOf(e.StartTime)

\* C24: with notify-ahead 0s, once an iteration made at or after the start
\* of a task instance that started while the loop was running has ended, a
\* notification was sent for the instance.
C24_NotifiedAtStart ==
    ( /\ Sleeping
      /\ watch.notifyEnabled /\ watch.notifyAhead = 0
      /\ watch.failures = 0 )
    => \A e \in StartedSinceStart :
          TicksOf(e.StartTime) <= watch.now =>
             \E i \in 1..Len(watch.sent) : watch.sent[i].sig = Sig(e)

\* C25: over a run of the watch loop at most one notification is sent for a
\* task instance, identified by its name and start.
C25_NotifiedOnce ==
    \A i, j \in 1..Len(watch.sent) :
       i < j => watch.sent[i].sig # watch.sent[j].sig

\* C25 witness: an iteration sees as next task, past its trigger time, an
\* instance an earlier iteration sent the notification of
C25_Witness ==
    /\ Sleeping
    /\ ~watch.realNext.isNil
    /\ watch.lastNotifiedSig = Sig(watch.realNext.ev)
    /\ watch.now >= TriggerTime(watch, watch.realNext)
    /\ \E i \in 1..Len(watch.sent) :
          /\ watch.sent[i].sig = Sig(watch.realNext.ev)
          /\ watch.sent[i].at < watch.now

\* a query of the iteration made at the clock value of watch fails
QueryFails ==
    \/ GetCurrentTask(cfg, EffectiveNow(watch.now)).err
    \/ GetNextTask(cfg, EffectiveNow(watch.now)).err
    \/ watch.jsonFmt /\ GetPreviousTask(cfg, EffectiveNow(watch.now)).err

\* C30: an iteration of the watch loop a query of which fails prints
\* nothing, sends no notification, leaves the last-notified signature as it
\* is, and the loop goes on after a pause of 5 seconds.
C30_FailedIterationSilent ==
    [][ ( /\ phase = "watching" /\ watch.pc = "run" /\ watch'.pc = "sleep"
          /\ QueryFails )
        => /\ watch'.printed = watch.printed
           /\ watch'.out = watch.out
           /\ watch'.sent = watch.sent
           /\ watch'.lastNotifiedSig = watch.lastNotifiedSig
           /\ watch'.sleep = RetryPause
           /\ phase' = "watching" ]_vars

\* C30 witness: after iterations that failed, one whose queries succeeded
\* has printed and sent a notification
C30_Witness ==
    /\ Sleeping
    /\ watch.failures > 1
    /\ watch.printed = 1
    /\ Len(watch.sent) = 1

====
